---- MODULE Spec2Model ----
(***************************************************************************)
(* Model of the teacher scheduling cost model (src/src/teachers.py) and of *)
(* the elitist generational loop started by src/src/solution.py.           *)
(*                                                                         *)
(* A roster is a sequence of 0/1 values, TLA+ index i standing for Python  *)
(* index i-1.  A problem instance is a record holding the fields that      *)
(* TeacherSchedulingProblem.__init__ sets; every method takes it as self.  *)
(***************************************************************************)
EXTENDS Integers, Sequences, FiniteSets, TLC

VARIABLES
    problem,    \* the TeacherSchedulingProblem instance (nsp)
    schedule,   \* the roster its caller holds
    outcome,    \* what the latest get_cost call on that roster ended in
    flipped,    \* the positions where the roster differs from its base roster
    budget,     \* how many positions may differ
    ref,        \* the first call made on a base roster, and what came after
    population, \* the individuals of the current generation
    halloffame, \* the hall of fame's items, best first
    gen,        \* the generation index
    pc          \* where the generational loop stands

costVars == <<problem, schedule, outcome, flipped, budget, ref>>

gaVars == <<population, halloffame, gen, pc>>

vars == <<problem, schedule, outcome, flipped, budget, ref, population,
          halloffame, gen, pc>>

(***************************************************************************)
(* Bounds of the model.  The source builds 8 teachers and 7 days a week;   *)
(* the model keeps the first NumTeachers teachers and DaysPerWeek days.    *)
(***************************************************************************)
NumTeachers == 3

DaysPerWeek == 3

\* a roster differs from the base roster it started as (all 0, all 1,
\* striped by week) in at most MaxFlips positions; in at most
\* MaxFlipsManyWeeks when the instances of the run differ from the one of
\* solution.py, MaxFlipsWrongLen when its rosters may have a wrong length,
\* MaxFlipsPure when its first call is remembered
MaxFlips == 2

MaxFlipsManyWeeks == 1

MaxFlipsWrongLen == 1

MaxFlipsPure == 1

\* a roster of a wrong length is empty or at most MaxExtra shorter or longer
\* than declared
MaxExtra == 2

\* the loop of solution.py runs 300 individuals, a hall of fame of 30 and 200
\* generations; the model runs POPULATION_SIZE individuals, a hall of fame of
\* HALL_OF_FAME_SIZE and MAX_GENERATIONS generations
POPULATION_SIZE == 3

HALL_OF_FAME_SIZE == 2

MAX_GENERATIONS == 2

(***************************************************************************)
(* Python built-ins used by the source.                                    *)
(***************************************************************************)
Min(a, b) == IF a <= b THEN a ELSE b

Max(a, b) == IF a >= b THEN a ELSE b

\* s[a:b] for 0 <= a, b: the elements of Python index a .. b-1 that exist
Slice(s, a, b) == SubSeq(s, a + 1, Min(b, Len(s)))

\* sum(s)
RECURSIVE SumSeq(_)
SumSeq(s) == IF s = << >> THEN 0 ELSE Head(s) + SumSeq(Tail(s))

\* s * k for a list s: k copies of s, one after the other
RECURSIVE Repeat(_, _)
Repeat(s, k) == IF k <= 0 THEN << >> ELSE s \o Repeat(s, k - 1)

(***************************************************************************)
(* TeacherSchedulingProblem                                                *)
(***************************************************************************)
\* the teachers of the source, in order
AllTeachers == <<"A", "B", "C", "D", "E", "F", "G", "H">>

\* their shift preferences: morning, evening, night
AllShiftPreference ==
    << <<1, 0, 0>>, <<1, 1, 0>>, <<0, 0, 1>>, <<0, 1, 0>>,
       <<0, 0, 1>>, <<1, 1, 1>>, <<0, 1, 1>>, <<1, 1, 1>> >>

HARD_CONSTRAINT_PENALTY == 10

\* __init__, with the number of teachers and of days a week as given
NewProblem(hard_constraint_penalty, nTeachers, nDays) ==
    [ hard_constraint_penalty |-> hard_constraint_penalty,
      teachers                |-> SubSeq(AllTeachers, 1, nTeachers),
      shift_preference        |-> SubSeq(AllShiftPreference, 1, nTeachers),
      shift_min               |-> <<2, 2, 1>>,
      shift_max               |-> <<3, 4, 2>>,
      max_shifts_per_week     |-> 5,
      weeks                   |-> 1,
      shift_per_day           |-> Len(<<2, 2, 1>>),
      shifts_per_week         |-> nDays * Len(<<2, 2, 1>>) ]

\* TeacherSchedulingProblem(hard_constraint_penalty)
TeacherSchedulingProblem(hard_constraint_penalty) ==
    NewProblem(hard_constraint_penalty, NumTeachers, DaysPerWeek)

\* __len__
ProblemLen(self) == Len(self.teachers) * self.shifts_per_week * self.weeks

\* get_teacher_shifts with every slice running one position into the next
\* teacher's shifts
get_teacher_shifts_Overlapping(self, sched) ==
    LET shifts_per_teacher == ProblemLen(self) \div Len(self.teachers)
    IN  [ t \in 1..Len(self.teachers) |->
            Slice(sched, (t - 1) * shifts_per_teacher,
                         (t - 1) * shifts_per_teacher + shifts_per_teacher + 1) ]

\* get_teacher_shifts: teacher index -> that teacher's slice of the schedule
get_teacher_shifts(self, sched) ==
    LET shifts_per_teacher == ProblemLen(self) \div Len(self.teachers)
    IN  [ t \in 1..Len(self.teachers) |->
            Slice(sched, (t - 1) * shifts_per_teacher,
                         (t - 1) * shifts_per_teacher + shifts_per_teacher) ]

\* the violations one teacher adds in count_consecutive_shift_violations:
\* the pairs of zip(teacher_shifts, teacher_shifts[1:]) that are (1, 1)
ConsecutiveOf(teacher_shifts) ==
    Cardinality({ j \in 1..(Len(teacher_shifts) - 1) :
                    teacher_shifts[j] = 1 /\ teacher_shifts[j + 1] = 1 })

RECURSIVE SumOver(_, _, _)
\* the sum of f[k] for k = lo .. hi
SumOver(f, lo, hi) == IF lo > hi THEN 0 ELSE f[lo] + SumOver(f, lo + 1, hi)

count_consecutive_shift_violations(self, teacher_shifts_dict) ==
    SumOver([ t \in DOMAIN teacher_shifts_dict |->
                ConsecutiveOf(teacher_shifts_dict[t]) ],
            1, Len(self.teachers))

\* range(0, self.weeks * self.shifts_per_week, self.shifts_per_week)
WeekStarts(self) == [ w \in 1..self.weeks |-> (w - 1) * self.shifts_per_week ]

\* weekly_shifts of one teacher in the week starting at Python index i
WeeklyShifts(self, teacher_shifts, i) ==
    SumSeq(Slice(teacher_shifts, i, i + self.shifts_per_week))

\* count_shifts_per_week_violations adding 1 for a week over the maximum,
\* whatever the surplus
count_shifts_per_week_violations_Flat(self, teacher_shifts_dict) ==
    LET nT == Len(self.teachers)
        weekly_shifts_list ==
            [ k \in 1..(nT * self.weeks) |->
                WeeklyShifts(self,
                             teacher_shifts_dict[((k - 1) \div self.weeks) + 1],
                             WeekStarts(self)[((k - 1) % self.weeks) + 1]) ]
        over == [ k \in 1..(nT * self.weeks) |->
                    IF weekly_shifts_list[k] > self.max_shifts_per_week
                    THEN 1 ELSE 0 ]
    IN  <<weekly_shifts_list, SumOver(over, 1, nT * self.weeks)>>

\* count_shifts_per_week_violations: <<weekly_shifts_list, violations>>
count_shifts_per_week_violations(self, teacher_shifts_dict) ==
    LET nT == Len(self.teachers)
        \* the list, teacher by teacher, week by week
        weekly_shifts_list ==
            [ k \in 1..(nT * self.weeks) |->
                WeeklyShifts(self,
                             teacher_shifts_dict[((k - 1) \div self.weeks) + 1],
                             WeekStarts(self)[((k - 1) % self.weeks) + 1]) ]
        over == [ k \in 1..(nT * self.weeks) |->
                    IF weekly_shifts_list[k] > self.max_shifts_per_week
                    THEN weekly_shifts_list[k] - self.max_shifts_per_week
                    ELSE 0 ]
    IN  <<weekly_shifts_list, SumOver(over, 1, nT * self.weeks)>>

\* [sum(shift) for shift in zip(*teacher_shifts_dict.values())]
TotalPerShift(self, teacher_shifts_dict) ==
    LET nT == Len(self.teachers)
        shortest == IF nT = 0 THEN 0
                    ELSE CHOOSE m \in { Len(teacher_shifts_dict[t]) : t \in 1..nT } :
                           \A t \in 1..nT : m <= Len(teacher_shifts_dict[t])
    IN  [ p \in 1..shortest |->
            SumOver([ t \in 1..nT |-> teacher_shifts_dict[t][p] ], 1, nT) ]

\* count_teachers_per_shift_violations adding 1 for a shift outside its
\* limits, whatever the gap
count_teachers_per_shift_violations_Flat(self, teacher_shifts_dict) ==
    LET total_per_shift_list == TotalPerShift(self, teacher_shifts_dict)
        gap == [ p \in 1..Len(total_per_shift_list) |->
                   LET daily_shift_index == (p - 1) % self.shift_per_day
                       num_of_teachers == total_per_shift_list[p]
                   IN  IF num_of_teachers > self.shift_max[daily_shift_index + 1]
                       THEN 1
                       ELSE IF num_of_teachers < self.shift_min[daily_shift_index + 1]
                       THEN 1
                       ELSE 0 ]
    IN  <<total_per_shift_list, SumOver(gap, 1, Len(total_per_shift_list))>>

\* count_teachers_per_shift_violations without the branch for a shift below
\* its minimum
count_teachers_per_shift_violations_MaxOnly(self, teacher_shifts_dict) ==
    LET total_per_shift_list == TotalPerShift(self, teacher_shifts_dict)
        gap == [ p \in 1..Len(total_per_shift_list) |->
                   LET daily_shift_index == (p - 1) % self.shift_per_day
                       num_of_teachers == total_per_shift_list[p]
                   IN  IF num_of_teachers > self.shift_max[daily_shift_index + 1]
                       THEN num_of_teachers - self.shift_max[daily_shift_index + 1]
                       ELSE 0 ]
    IN  <<total_per_shift_list, SumOver(gap, 1, Len(total_per_shift_list))>>

\* count_teachers_per_shift_violations: <<total_per_shift_list, violations>>
count_teachers_per_shift_violations(self, teacher_shifts_dict) ==
    LET total_per_shift_list == TotalPerShift(self, teacher_shifts_dict)
        gap == [ p \in 1..Len(total_per_shift_list) |->
                   LET daily_shift_index == (p - 1) % self.shift_per_day
                       num_of_teachers == total_per_shift_list[p]
                   IN  IF num_of_teachers > self.shift_max[daily_shift_index + 1]
                       THEN num_of_teachers - self.shift_max[daily_shift_index + 1]
                       ELSE IF num_of_teachers < self.shift_min[daily_shift_index + 1]
                       THEN self.shift_min[daily_shift_index + 1] - num_of_teachers
                       ELSE 0 ]
    IN  <<total_per_shift_list, SumOver(gap, 1, Len(total_per_shift_list))>>

\* count_shift_preference_violations
count_shift_preference_violations(self, teacher_shifts_dict) ==
    LET one(teacher_index) ==
            LET preference == Repeat(self.shift_preference[teacher_index],
                                     self.shifts_per_week \div self.shift_per_day)
                shifts == teacher_shifts_dict[teacher_index]
            IN  \* zip(preference, shifts) stops at the shorter of the two
                Cardinality({ j \in 1..Min(Len(preference), Len(shifts)) :
                                preference[j] = 0 /\ shifts[j] = 1 })
    IN  SumOver([ t \in 1..Len(self.shift_preference) |-> one(t) ],
                1, Len(self.shift_preference))

\* what a call of get_cost ends in: the value returned (none when it raises)
\* and the counters' results in the order the call evaluated them
Raised(exception) ==
    [ kind |-> exception, returned |-> << >>, counted |-> << >> ]

Returned(cost, counted) ==
    [ kind |-> "returned", returned |-> <<cost>>, counted |-> counted ]

NotCalled == [ kind |-> "not called", returned |-> << >>, counted |-> << >> ]

\* the counters of get_cost on a schedule, in the order it calls them
Counted(self, sched) ==
    LET teacher_shifts_dict == get_teacher_shifts(self, sched)
    IN  << count_consecutive_shift_violations(self, teacher_shifts_dict),
           count_shifts_per_week_violations(self, teacher_shifts_dict)[2],
           count_teachers_per_shift_violations(self, teacher_shifts_dict)[2],
           count_shift_preference_violations(self, teacher_shifts_dict) >>

\* get_cost with the penalty applied to the soft violations too
get_cost_PenaltyOnSoft(self, sched) ==
    IF Len(sched) # ProblemLen(self)
    THEN Raised("ValueError")
    ELSE LET c == Counted(self, sched)
         IN  Returned(self.hard_constraint_penalty * (c[1] + c[3] + c[2] + c[4]), c)

\* get_cost refusing only the schedules that are too short
get_cost_ShortOnly(self, sched) ==
    IF Len(sched) < ProblemLen(self)
    THEN Raised("ValueError")
    ELSE LET c == Counted(self, sched)
         IN  Returned(self.hard_constraint_penalty * (c[1] + c[3] + c[2]) + c[4], c)

get_cost(self, sched) ==
    IF Len(sched) # ProblemLen(self)
    THEN Raised("ValueError")
    ELSE LET teacher_shifts_dict == get_teacher_shifts(self, sched)
             consecutive_shift_violations ==
                 count_consecutive_shift_violations(self, teacher_shifts_dict)
             shifts_per_week_violations ==
                 count_shifts_per_week_violations(self, teacher_shifts_dict)[2]
             teachers_per_shift_violations ==
                 count_teachers_per_shift_violations(self, teacher_shifts_dict)[2]
             shift_preference_violations ==
                 count_shift_preference_violations(self, teacher_shifts_dict)
             hard_contstraint_violations ==
                 consecutive_shift_violations + teachers_per_shift_violations
                     + shifts_per_week_violations
             soft_contstraint_violations == shift_preference_violations
         IN  Returned(self.hard_constraint_penalty * hard_contstraint_violations
                          + soft_contstraint_violations,
                      <<consecutive_shift_violations, shifts_per_week_violations,
                        teachers_per_shift_violations, shift_preference_violations>>)

(***************************************************************************)
(* What a call of get_cost leaves behind.  The method and the counters     *)
(* assign no attribute of self and no element of the schedule: they read,  *)
(* slice (a copy) and build new lists (shift_preference * k is a new list).*)
(***************************************************************************)
ProblemAfterInPlaceTiling(self, sched) ==
    IF Len(sched) # ProblemLen(self) THEN self
    ELSE [ self EXCEPT !.shift_preference =
             [ t \in 1..Len(self.shift_preference) |->
                 Repeat(self.shift_preference[t],
                        self.shifts_per_week \div self.shift_per_day) ] ]

ProblemAfterGetCost(self, sched) == self

ScheduleAfterGetCost(self, sched) == sched

(***************************************************************************)
(* The callers of the cost model: a roster is made, changed bit by bit,    *)
(* and costed.                                                             *)
(***************************************************************************)
Filled(n, bit) == [ i \in 1..n |-> bit ]

\* every other week-long block of the roster worked, the others free
Striped(self) ==
    [ i \in 1..ProblemLen(self) |->
        IF ((i - 1) \div self.shifts_per_week) % 2 = 0 THEN 1 ELSE 0 ]

\* the rosters a run starts from
BaseRosters(self, n) ==
    IF n = ProblemLen(self)
    THEN {Filled(n, 0), Filled(n, 1), Striped(self)}
    ELSE {Filled(n, 0), Filled(n, 1)}

Ones(s) == Cardinality({ i \in 1..Len(s) : s[i] = 1 })

\* the lengths of the rosters a caller hands over: the declared length, the
\* empty roster and up to MaxExtra positions fewer or more
Lengths(self) ==
    {0} \cup { n \in (ProblemLen(self) - MaxExtra)..(ProblemLen(self) + MaxExtra) :
                 n >= 0 }

\* no call is remembered, and none will be
Untracked == [ schedule |-> << >>, outcome |-> NotCalled,
               between |-> FALSE, again |-> FALSE, tracking |-> FALSE ]

\* no call is remembered yet
NoRef == [ Untracked EXCEPT !.tracking = TRUE ]

\* the loop is not running
GaIdle ==
    /\ population = << >>
    /\ halloffame = << >>
    /\ gen = 0
    /\ pc = "idle"

\* hard_constraint_penalty values a caller passes to the constructor
PenaltyInputs == {-1, HARD_CONSTRAINT_PENALTY}

\* values of the weeks attribute
WeeksInputs == {1, 2}

\* a base roster, not costed yet
Fresh ==
    /\ flipped = {}
    /\ outcome = NotCalled
    /\ GaIdle

\* the instance of solution.py and a roster of the declared length
Init ==
    /\ problem = TeacherSchedulingProblem(HARD_CONSTRAINT_PENALTY)
    /\ schedule \in BaseRosters(problem, ProblemLen(problem))
    /\ budget = MaxFlips
    /\ ref = Untracked
    /\ Fresh

\* the instance of solution.py and a roster of a right or a wrong length
InitLen ==
    /\ problem = TeacherSchedulingProblem(HARD_CONSTRAINT_PENALTY)
    /\ \E n \in Lengths(problem) : schedule \in BaseRosters(problem, n)
    /\ budget = MaxFlipsWrongLen
    /\ ref = Untracked
    /\ Fresh

\* instances with another penalty weight or number of weeks, and a roster
\* of the declared length
InitConfig ==
    /\ \E p \in PenaltyInputs, w \in WeeksInputs :
           problem = [TeacherSchedulingProblem(p) EXCEPT !.weeks = w]
    /\ schedule \in BaseRosters(problem, ProblemLen(problem))
    /\ budget = MaxFlipsManyWeeks
    /\ ref = Untracked
    /\ Fresh

\* the instance of solution.py and a roster of the declared length, the
\* first call on the base roster being remembered
InitPure ==
    /\ problem = TeacherSchedulingProblem(HARD_CONSTRAINT_PENALTY)
    /\ schedule \in BaseRosters(problem, ProblemLen(problem))
    /\ budget = MaxFlipsPure
    /\ ref = NoRef
    /\ Fresh

\* the caller flips one bit of the roster (mutFlipBit); its fitness is
\* unset.  At most budget positions differ from the base roster.
FlipBit(i) ==
    /\ pc = "idle"
    /\ i \in 1..Len(schedule)
    /\ flipped' = IF i \in flipped THEN flipped \ {i} ELSE flipped \cup {i}
    /\ Cardinality(flipped') <= budget
    /\ schedule' = [schedule EXCEPT ![i] = 1 - schedule[i]]
    /\ outcome' = NotCalled
    /\ UNCHANGED <<problem, budget, ref>>
    /\ UNCHANGED gaVars

\* the caller evaluates the roster: nsp.get_cost(individual)
GetCost ==
    /\ pc = "idle"
    /\ outcome = NotCalled
    /\ outcome' = get_cost(problem, schedule)
    /\ problem' = ProblemAfterGetCost(problem, schedule)
    /\ schedule' = ScheduleAfterGetCost(problem, schedule)
    /\ ref' = IF ~ref.tracking THEN ref
              ELSE IF ref.outcome = NotCalled
              THEN IF flipped = {}
                   THEN [ ref EXCEPT !.schedule = schedule, !.outcome = outcome' ]
                   ELSE ref
              ELSE IF schedule # ref.schedule
              THEN [ ref EXCEPT !.between = TRUE ]
              ELSE [ ref EXCEPT !.again = ref.between ]
    /\ UNCHANGED <<flipped, budget>>
    /\ UNCHANGED gaVars

Next ==
    \/ \E i \in 1..Len(schedule) : FlipBit(i)
    \/ GetCost

Spec == Init /\ [][Next]_vars

SpecLen == InitLen /\ [][Next]_vars

SpecConfig == InitConfig /\ [][Next]_vars

SpecPure == InitPure /\ [][Next]_vars

(***************************************************************************)
(* The elitist generational loop that main() of solution.py starts         *)
(* (elitism.ea_simple_with_elitism with the operators registered in the    *)
(* toolbox).  An individual is a roster with its cached fitness: the tuple *)
(* toolbox.evaluate returned, empty while the fitness is unset.            *)
(***************************************************************************)
\* the roster positions in which the individuals of the model differ: the
\* initial rosters are 0 elsewhere and mutation flips these positions only
GenePositions == {1, 2}

Individual(genes) == [ genes |-> genes, fitness |-> << >> ]

Valid(ind) == ind.fitness # << >>

FitnessOf(ind) == ind.fitness[1]

\* toolbox.evaluate = get_cost(individual): (nsp.get_cost(individual),)
evaluate(ind) == [ ind EXCEPT !.fitness = get_cost(problem, ind.genes).returned ]

\* toolbox.populationCreator(n = POPULATION_SIZE): what it may return
Populations ==
    LET n == ProblemLen(problem)
        pool == { Individual([ i \in 1..n |-> IF i \in on THEN 1 ELSE 0 ]) :
                    on \in SUBSET (GenePositions \cap (1..n)) }
    IN  [ 1..POPULATION_SIZE -> pool ]

\* a tournament of size 2: the lower cost wins, the first sampled on a tie
Tournament(a, b) == IF FitnessOf(b) < FitnessOf(a) THEN b ELSE a

\* two-point crossover of a pair at the cut positions c1, c2: the segment
\* between the cuts is exchanged; a child that differs from its parent
\* loses its fitness
CxTwoPoint(a, b, c1, c2) ==
    LET lo == Min(c1, c2)
        hi == Max(c1, c2)
        swap(x, y) == [ i \in 1..Len(x) |-> IF lo < i /\ i <= hi THEN y[i] ELSE x[i] ]
        child(x, y) == IF swap(x.genes, y.genes) = x.genes THEN x
                       ELSE Individual(swap(x.genes, y.genes))
    IN  <<child(a, b), child(b, a)>>

\* the last position where two rosters differ, 0 when they are equal
LastDiff(x, y) ==
    LET diff == { i \in 1..Len(x) : x[i] # y[i] }
    IN  IF diff = {} THEN 0 ELSE CHOOSE i \in diff : \A j \in diff : j <= i

\* what recombination may make of a pair: the pair itself or a crossover.
\* The cut positions range over the whole roster; a cut behind the last
\* position where the parents differ exchanges what a cut at that position
\* exchanges, so the cuts up to it give every outcome.
PairOutcomes(a, b) ==
    {<<a, b>>} \cup { CxTwoPoint(a, b, c1, c2) :
                        c1 \in 0..LastDiff(a.genes, b.genes),
                        c2 \in 0..LastDiff(a.genes, b.genes) }

\* bit-flip mutation flipping the positions of flips; an individual with a
\* flipped bit loses its fitness
MutFlipBit(ind, flips) ==
    IF flips = {} THEN ind
    ELSE Individual([ i \in 1..Len(ind.genes) |->
                        IF i \in flips THEN 1 - ind.genes[i] ELSE ind.genes[i] ])

\* the hall of fame with one more individual offered to it, duplicates of
\* an archived roster are refused, a newcomer goes behind the entries that
\* are as good, and the worst entry leaves when the archive is full
HofInsertSorted(items, ind) ==
    LET before == Cardinality({ i \in 1..Len(items) :
                                  FitnessOf(items[i]) <= FitnessOf(ind) })
    IN  SubSeq(items, 1, before) \o <<ind>> \o SubSeq(items, before + 1, Len(items))

HofOfferEvictingBest(items, ind) ==
    IF \E i \in 1..Len(items) : items[i].genes = ind.genes THEN items
    ELSE IF Len(items) < HALL_OF_FAME_SIZE THEN HofInsertSorted(items, ind)
    ELSE IF FitnessOf(ind) <= FitnessOf(items[Len(items)])
         THEN HofInsertSorted(Tail(items), ind)
    ELSE items

HofOffer(items, ind) ==
    IF \E i \in 1..Len(items) : items[i].genes = ind.genes THEN items
    ELSE IF Len(items) < HALL_OF_FAME_SIZE THEN HofInsertSorted(items, ind)
    ELSE IF FitnessOf(ind) <= FitnessOf(items[Len(items)])
         THEN HofInsertSorted(SubSeq(items, 1, Len(items) - 1), ind)
    ELSE items

RECURSIVE HofUpdate(_, _)
\* the hall of fame after scanning the individuals of pop in order
HofUpdate(items, pop) ==
    IF pop = << >> THEN items
    ELSE HofUpdate(HofOffer(items, Head(pop)), Tail(pop))

\* the subsequence of s at the indices of keep
RECURSIVE Pick(_, _, _)
Pick(s, keep, i) ==
    IF i > Len(s) THEN << >>
    ELSE (IF i \in keep THEN <<s[i]>> ELSE << >>) \o Pick(s, keep, i + 1)

\* main(): the population is created, the hall of fame is empty
InitGA ==
    /\ problem = TeacherSchedulingProblem(HARD_CONSTRAINT_PENALTY)
    /\ schedule = << >>
    /\ outcome = NotCalled
    /\ flipped = {}
    /\ budget = 0
    /\ ref = Untracked
    /\ population \in Populations
    /\ halloffame = << >>
    /\ gen = 0
    /\ pc = "Evaluating"

\* every individual without a fitness is costed
Evaluating ==
    /\ pc = "Evaluating"
    /\ population' = [ i \in 1..Len(population) |->
                         IF Valid(population[i]) THEN population[i]
                         ELSE evaluate(population[i]) ]
    /\ pc' = "Selecting"
    /\ UNCHANGED <<halloffame, gen>>
    /\ UNCHANGED costVars

\* as many parents as the population holds, each the winner of a tournament
\* between two individuals sampled with replacement; from here to Electing
\* population is the generation in the making
Selecting ==
    /\ pc = "Selecting"
    /\ LET winners == { Tournament(population[a], population[b]) :
                          a \in 1..Len(population), b \in 1..Len(population) }
       IN  population' \in [ 1..Len(population) -> winners ]
    /\ pc' = "Recombining"
    /\ UNCHANGED <<halloffame, gen>>
    /\ UNCHANGED costVars

\* the parents two by two: crossed over or passed through
Recombining ==
    /\ pc = "Recombining"
    /\ \E pairs \in [ 1..(Len(population) \div 2) ->
                        UNION { PairOutcomes(population[2 * k - 1], population[2 * k]) :
                                  k \in 1..(Len(population) \div 2) } ] :
           /\ \A k \in DOMAIN pairs :
                  pairs[k] \in PairOutcomes(population[2 * k - 1], population[2 * k])
           /\ population' = [ i \in 1..Len(population) |->
                                IF (i + 1) \div 2 \in DOMAIN pairs
                                THEN pairs[(i + 1) \div 2][2 - (i % 2)]
                                ELSE population[i] ]
    /\ pc' = "Mutating"
    /\ UNCHANGED <<halloffame, gen>>
    /\ UNCHANGED costVars

\* every offspring has some of its bits flipped
Mutating ==
    /\ pc = "Mutating"
    /\ \E flips \in [ 1..Len(population) -> SUBSET GenePositions ] :
           population' = [ i \in 1..Len(population) |->
                             MutFlipBit(population[i], flips[i]) ]
    /\ pc' = "ReEvaluating"
    /\ UNCHANGED <<halloffame, gen>>
    /\ UNCHANGED costVars

\* the offspring that lost their fitness are costed
ReEvaluating ==
    /\ pc = "ReEvaluating"
    /\ population' = [ i \in 1..Len(population) |->
                         IF Valid(population[i]) THEN population[i]
                         ELSE evaluate(population[i]) ]
    /\ pc' = "Electing"
    /\ UNCHANGED <<halloffame, gen>>
    /\ UNCHANGED costVars

\* the worst offspring give way to copies of the hall of fame's entries, and
\* the hall of fame is updated from the generation so formed
Electing ==
    /\ pc = "Electing"
    /\ LET m == Min(HALL_OF_FAME_SIZE, Len(halloffame))
           n == Len(population)
       IN  \E keep \in SUBSET (1..n) :
               /\ Cardinality(keep) = n - m
               /\ \A i \in keep, j \in (1..n) \ keep :
                      FitnessOf(population[i]) <= FitnessOf(population[j])
               /\ population' = Pick(population, keep, 1) \o SubSeq(halloffame, 1, m)
    /\ halloffame' = HofUpdate(halloffame, population')
    /\ pc' = "Logging"
    /\ UNCHANGED gen
    /\ UNCHANGED costVars

\* the generation is recorded and counted; the loop ends after
\* MAX_GENERATIONS generations.  The record {generation, min, mean} goes to
\* the logbook, which nothing in the loop reads and the model does not keep.
Logging ==
    /\ pc = "Logging"
    /\ gen' = gen + 1
    /\ pc' = IF gen + 1 < MAX_GENERATIONS THEN "Selecting" ELSE "Terminated"
    /\ UNCHANGED <<population, halloffame>>
    /\ UNCHANGED costVars

NextGA ==
    \/ Evaluating
    \/ Selecting
    \/ Recombining
    \/ Mutating
    \/ ReEvaluating
    \/ Electing
    \/ Logging

SpecGA == InitGA /\ [][NextGA]_vars

(***************************************************************************)
(* The claims.  A roster is read flat here: worker k (1 .. W) owns the     *)
(* positions (k-1)*PerWorker + 1 .. k*PerWorker, and position j of a       *)
(* worker is of slot type (j-1) % S.                                       *)
(***************************************************************************)
PerWorker(self) == self.shifts_per_week * self.weeks

Workers(self) == 1..Len(self.teachers)

At(self, s, k, j) == s[(k - 1) * PerWorker(self) + j]

\* the worker-major decoding of a roster of the declared length
Decode(self, s) ==
    [ k \in Workers(self) |-> [ j \in 1..PerWorker(self) |-> At(self, s, k, j) ] ]

HasReturned == outcome.kind = "returned"

Cost == outcome.returned[1]

Consecutive == outcome.counted[1]

WeeklyOverload == outcome.counted[2]

Capacity == outcome.counted[3]

Preference == outcome.counted[4]

\* C1: for a roster of the declared length get_cost returns
\* hard_constraint_penalty * (consecutive + capacity + weekly-overload
\* violations) + preference violations, each count being what its counter
\* returns on the worker-major decoding of that roster; the preference count
\* is not multiplied by the penalty.
C1_CostFormula ==
    (outcome # NotCalled /\ Len(schedule) = ProblemLen(problem)) =>
        LET d == Decode(problem, schedule)
            c == count_consecutive_shift_violations(problem, d)
            t == count_teachers_per_shift_violations(problem, d)[2]
            w == count_shifts_per_week_violations(problem, d)[2]
            p == count_shift_preference_violations(problem, d)
        IN  /\ HasReturned
            /\ outcome.counted = <<c, w, t, p>>
            /\ Cost = problem.hard_constraint_penalty * (c + t + w) + p

\* a costed roster with hard and with preference violations
C1_Witness ==
    /\ HasReturned
    /\ Preference > 0
    /\ Consecutive > 0 /\ Capacity > 0 /\ WeeklyOverload > 0
    /\ problem.hard_constraint_penalty > 1

\* C2: get_cost on a roster of another length than len(problem), the empty
\* roster included, raises ValueError, returns no cost, evaluates no counter
\* and leaves the problem instance as constructed.
C2_LengthMismatchRaises ==
    (outcome # NotCalled /\ Len(schedule) # ProblemLen(problem)) =>
        /\ outcome.kind = "ValueError"
        /\ outcome.returned = << >>
        /\ outcome.counted = << >>
        /\ problem = TeacherSchedulingProblem(HARD_CONSTRAINT_PENALTY)

\* a longer roster with a shift worked was refused
C2_Witness ==
    /\ outcome.kind = "ValueError"
    /\ Len(schedule) > ProblemLen(problem)
    /\ \E i \in 1..Len(schedule) : schedule[i] = 1

\* C3: get_cost never returns a negative cost, whatever penalty weight the
\* caller gave the constructor.
C3_CostNonNegative == HasReturned => Cost >= 0

\* C4: the consecutive-shift count is the number of positions j with j and
\* j+1 both worked inside one worker's sequence: day boundaries count, the
\* boundary between two workers does not, and a maximal run of n worked
\* positions adds n-1 (the count is the ones minus the runs of each worker).
C4_ConsecutivePairs ==
    HasReturned =>
        LET n == ProblemLen(problem)
            pairs == { i \in 1..(n - 1) :
                         /\ schedule[i] = 1 /\ schedule[i + 1] = 1
                         /\ i % PerWorker(problem) # 0 }
            ones == { i \in 1..n : schedule[i] = 1 }
            runStarts == { i \in ones :
                             \/ (i - 1) % PerWorker(problem) = 0
                             \/ schedule[i - 1] = 0 }
        IN  /\ Consecutive = Cardinality(pairs)
            /\ Consecutive = Cardinality(ones) - Cardinality(runStarts)

\* a costed roster with a worked pair across a worker boundary, one across a
\* day boundary inside a worker, and a maximal run of exactly three
C4_Witness ==
    /\ HasReturned
    /\ \E k \in Workers(problem) :
           /\ k < Len(problem.teachers)
           /\ At(problem, schedule, k, PerWorker(problem)) = 1
           /\ At(problem, schedule, k + 1, 1) = 1
    /\ \E k \in Workers(problem) :
           /\ At(problem, schedule, k, problem.shift_per_day) = 1
           /\ At(problem, schedule, k, problem.shift_per_day + 1) = 1
    /\ \E k \in Workers(problem) :
           /\ \A j \in 1..3 : At(problem, schedule, k, j) = 1
           /\ At(problem, schedule, k, 4) = 0

\* the ones of worker k in its window w (the w-th week of its sequence)
OnesInWindow(self, s, k, w) ==
    Cardinality({ j \in ((w - 1) * self.shifts_per_week + 1)..(w * self.shifts_per_week) :
                    At(self, s, k, j) = 1 })

\* C5: the weekly-overload count is the sum over every worker and every
\* window of max(0, ones in the window - max_shifts_per_week); the windows
\* are the weeks of the worker's sequence and cover it exactly once.
C5_WeeklyOverload ==
    HasReturned =>
        LET self == problem
            windows == Workers(self) \X (1..self.weeks)
            surplus(kw) ==
                Max(0, OnesInWindow(self, schedule, kw[1], kw[2])
                         - self.max_shifts_per_week)
            \* each unit of surplus is one triple <<worker, window, unit>>
            units == { kwu \in windows \X (1..self.shifts_per_week) :
                         kwu[2] <= surplus(kwu[1]) }
            weekly_shifts_list ==
                count_shifts_per_week_violations(
                    self, get_teacher_shifts(self, schedule))[1]
        IN  /\ WeeklyOverload = Cardinality(units)
            /\ Len(weekly_shifts_list) = Cardinality(windows)
            /\ SumSeq(weekly_shifts_list) = Ones(schedule)

\* a costed two-week roster where one window of a worker holds max+3 shifts
\* and the other window of that worker none
C5_Witness ==
    /\ HasReturned
    /\ problem.weeks = 2
    /\ \E k \in Workers(problem) :
           /\ OnesInWindow(problem, schedule, k, 1) = problem.max_shifts_per_week + 3
           /\ OnesInWindow(problem, schedule, k, 2) = 0
    /\ WeeklyOverload >= 3

\* the workers scheduled at position p of their sequences
Headcount(self, s, p) ==
    Cardinality({ k \in Workers(self) : At(self, s, k, p) = 1 })

SlotMax(self, p) == self.shift_max[((p - 1) % self.shift_per_day) + 1]

SlotMin(self, p) == self.shift_min[((p - 1) % self.shift_per_day) + 1]

AllZero == schedule = Filled(ProblemLen(problem), 0)

\* C7 as stated: the all-zero roster has no consecutive, preference or
\* weekly-overload violation and its capacity violations are the sum of the
\* slot-type minimums.
C7_AllZeroSumOfSlotTypeMins ==
    (HasReturned /\ AllZero) =>
        /\ Consecutive = 0 /\ Preference = 0 /\ WeeklyOverload = 0
        /\ Capacity = SumSeq(problem.shift_min)

\* C7 amended: the all-zero roster has no consecutive, preference or
\* weekly-overload violation and its capacity violations are the slot-type
\* minimums summed over every day of the period: days * sum(shift_min).
C7_AllZeroMinsOfEveryDay ==
    (HasReturned /\ AllZero) =>
        /\ Consecutive = 0 /\ Preference = 0 /\ WeeklyOverload = 0
        /\ Capacity = (PerWorker(problem) \div problem.shift_per_day)
                          * SumSeq(problem.shift_min)

C7_Witness == HasReturned /\ AllZero /\ Capacity > SumSeq(problem.shift_min)

C9_HallOfFameMonotone ==
    /\ [](/\ Len(halloffame) <= HALL_OF_FAME_SIZE
          /\ \A i \in 1..Len(halloffame) :
                 FitnessOf(halloffame[1]) <= FitnessOf(halloffame[i]))
    /\ [][ Len(halloffame') >= Len(halloffame) ]_vars
    /\ [][ halloffame # << >> =>
               FitnessOf(halloffame'[1]) <= FitnessOf(halloffame[1]) ]_vars

\* the run ended with a full hall of fame whose best entry, an offspring of
\* the last generation, beats the elites that generation took in (the last
\* individuals of the population)
C9_Witness ==
    /\ pc = "Terminated"
    /\ gen >= 2
    /\ Len(halloffame) = HALL_OF_FAME_SIZE
    /\ \A i \in (Len(population) - HALL_OF_FAME_SIZE + 1)..Len(population) :
           FitnessOf(halloffame[1]) < FitnessOf(population[i])

====
